---- MODULE Spec2Model ----
(***************************************************************************)
(* Model of the canvas effects of pixel-portfolio/src/App.jsx:             *)
(*   DotGrid    (throttle, hexToRgb, buildGrid, draw, onMove, onClick)     *)
(*   ClickSpark (handleClick, draw)                                        *)
(*                                                                         *)
(* Numbers.  JavaScript numbers are modelled exactly:                      *)
(*   - times are integer milliseconds (performance.now());                 *)
(*   - lengths of the grid are kept in half pixels (fields cx, cy of a dot *)
(*     hold 2*cx, 2*cy) because startX = extraX/2 + dotSize/2 may be a     *)
(*     half integer;                                                       *)
(*   - velocities are "signed roots" [s, n, d] standing for the real       *)
(*     s * sqrt(n/d), s in {-1,0,1}, n/d a reduced fraction; products,     *)
(*     quotients, Math.hypot and comparisons of such numbers are exact;    *)
(*   - a velocity v px/s of the code is kept as v / 1000 (px/ms), and so   *)
(*     are the thresholds it is compared with, which keeps the squares     *)
(*     within TLC's 32-bit integers.                                       *)
(* gsap is a library: a tween is an entry of the list of active tweens of  *)
(* its target, its rendering writes the target's offsets, its completion   *)
(* runs onComplete.                                                        *)
(***************************************************************************)
EXTENDS Integers, Sequences, FiniteSets, TLC

(***************************************************************************)
(* Bounds of the model                                                     *)
(***************************************************************************)
MaxTime == 100          \* last value of performance.now() in the grid runs
MaxHeap == 2            \* dot objects alive at once (current + discarded)
MaxSparks == 16         \* sparks in the collection
SparkMaxTime == 450     \* last value of performance.now() in the spark runs
MaxSide == 60           \* container sides 0..MaxSide in the layout runs
LiveMaxTime == 50       \* last value of performance.now() in the fair runs
TextMaxTime == 150      \* last value of performance.now() in the text runs
MaxBurst == 3           \* resize notifications or events counted in one burst

\* performance.now() advances in steps of TickMs
TickMs == 5 * 5

(***************************************************************************)
(* Exact arithmetic                                                        *)
(***************************************************************************)
Abs(a) == IF a < 0 THEN -a ELSE a

Sgn(a) == IF a < 0 THEN -1 ELSE IF a = 0 THEN 0 ELSE 1

RECURSIVE Gcd(_, _)
Gcd(a, b) == IF b = 0 THEN a ELSE Gcd(b, a % b)

\* Math.floor(a / b) for b > 0
FloorDiv(a, b) == a \div b

\* the fraction p/q (q > 0, p >= 0), reduced
Frac(p, q) == LET g == Gcd(p, q) IN [n |-> p \div g, d |-> q \div g]

FracMul(a, b) ==
    LET g1 == Gcd(a.n, b.d)
        g2 == Gcd(b.n, a.d)
        h1 == IF g1 = 0 THEN 1 ELSE g1
        h2 == IF g2 = 0 THEN 1 ELSE g2
    IN  Frac((a.n \div h1) * (b.n \div h2), (a.d \div h2) * (b.d \div h1))

FracAdd(a, b) ==
    LET g == Gcd(a.d, b.d)
    IN  Frac(a.n * (b.d \div g) + b.n * (a.d \div g), (a.d \div g) * b.d)

\* a < b for fractions, without forming the cross products
FracLess(a, b) ==
    LET qa == a.n \div a.d
        qb == b.n \div b.d
    IN  \/ qa < qb
        \/ /\ qa = qb
           /\ (a.n % a.d) * b.d < (b.n % b.d) * a.d

\* the real s * sqrt(n/d)
Root(s, f) == IF f.n = 0 THEN [s |-> 0, n |-> 0, d |-> 1]
              ELSE [s |-> s, n |-> f.n, d |-> f.d]

SqOf(r) == [n |-> r.n, d |-> r.d]

\* the rational p/q as a signed root (q > 0)
RootOfRat(p, q) ==
    LET f == Frac(Abs(p), q) IN Root(Sgn(p), [n |-> f.n * f.n, d |-> f.d * f.d])

RootOfInt(k) == RootOfRat(k, 1)

RootMul(a, b) == Root(a.s * b.s, FracMul(SqOf(a), SqOf(b)))

\* a / b, b # 0
RootDiv(a, b) == Root(a.s * b.s, FracMul(SqOf(a), [n |-> b.d, d |-> b.n]))

\* Math.hypot(a, b)
Hypot(a, b) == Root(1, FracAdd(SqOf(a), SqOf(b)))

\* a > b for signed roots
RootGt(a, b) ==
    IF a.s > 0 /\ b.s > 0 THEN FracLess(SqOf(b), SqOf(a))
    ELSE IF a.s < 0 /\ b.s < 0 THEN FracLess(SqOf(a), SqOf(b))
    ELSE a.s > b.s

RootZero == RootOfInt(0)

(***************************************************************************)
(* Configuration (props of <DotGrid> and <ClickSpark> as App renders them) *)
(***************************************************************************)
proximity == 90
speedTrigger == 100
shockRadius == 250
maxSpeed == 5000
limit == 50             \* throttle(onMove, 50)
firstDt == 16           \* dt of the first sample: pr.lastTime ? ... : 16
msPerSecond == 1000     \* (dx / dt) * 1000
sparkCount == 8
duration == 400

\* dotSize, gap, baseColor, activeColor as App passes them; colours are the
\* strings' characters
AppProps ==
    [dotSize |-> 2, gap |-> 26,
     baseColor |-> <<"#", "d", "c", "d", "c", "d", "c">>,
     activeColor |-> <<"#", "F", "F", "8", "C", "0", "0">>]

(***************************************************************************)
(* State                                                                   *)
(***************************************************************************)
VARIABLES
    now,        \* performance.now(), ms
    lastCall,   \* throttle's lastCall of throttledMove
    pointer,    \* pointerRef.current
    props,      \* dotSize, gap, baseColor, activeColor of the DotGrid
    size,       \* <<width, height>> of wrapperRef's bounding rect
    dots,       \* the dot objects that exist: id -> dot (cx, cy in half px)
    dotsRef,    \* dotsRef.current: the ids of the current dots, row-major
    tweens,     \* gsap's active tweens: id -> list of tweens of that dot
    fills,      \* fillStyle of each dot in the last draw(), in dotsRef order
    sparks,     \* sparksRef.current
    host,       \* the DotGrid's surroundings: mounted, context, frame request
    overlay,    \* the ClickSpark's surroundings: mounted, timeouts, canvas
    text,       \* App's text effect: its throttle and the .react-text elements
    lastOp      \* the handler that ran last and what it called

vars == <<now, lastCall, pointer, props, size, dots, dotsRef, tweens, fills,
          sparks, host, overlay, text, lastOp>>

\* host: mounted is false once the effects' cleanups have run; ctx tells
\* whether canvasRef.current and its getContext('2d') are there; raf tells
\* whether draw's requestAnimationFrame is pending; builds counts the
\* buildGrid calls of the ResizeObserver at the instant builds.at
\* overlay: mounted as for host; timers are the due times of the pending
\* timeouts of resizeCanvas, the last of them the one resizeTimeout names
\* when live; burst counts the resize events since the last resizeCanvas,
\* start is the time of the first of them and lastEvent of the last; window is the parent's size and
\* canvas the size resizeCanvas gave the canvas
\* text: lastCall of the effect's throttle, the number of processed moves
\* and the position of the last one; per element its animated style values
\* and gsap's tweens of it in creation order, each with the properties it
\* animates and whether it has rendered yet
\* lastOp: the handler's name, whether its body ran (a throttled call may be
\* dropped), the event's <<clientX, clientY>>, the dots it launched an
\* animation on, the number of sparks it removed, and its timestamp
Op(name, ran, at, launched, removed, ts) ==
    [op |-> name, ran |-> ran, at |-> at, launched |-> launched,
     removed |-> removed, ts |-> ts]

NoOp == Op("none", FALSE, <<0, 0>>, {}, 0, 0)

(***************************************************************************)
(* DotGrid.buildGrid                                                       *)
(***************************************************************************)
\* Cols with the gap left out of the numerator
ColsNoGap(width, p) == FloorDiv(width, p.dotSize + p.gap)

Cols(width, p) == FloorDiv(width + p.gap, p.dotSize + p.gap)

Rows(height, p) == FloorDiv(height + p.gap, p.dotSize + p.gap)

\* StartTwice with the radius subtracted
StartTwiceMinus(extra, dotSize) == extra - dotSize

\* twice startX = extraX / 2 + dotSize / 2 (and startY alike)
StartTwice(extra, dotSize) == extra + dotSize

\* the dots array built by the two nested loops; k-th pushed dot, k from 0
BuildDots(width, height, p) ==
    LET cols == Cols(width, p)
        rows == Rows(height, p)
        cell == p.dotSize + p.gap
        gridW == cell * cols - p.gap
        gridH == cell * rows - p.gap
        extraX == width - gridW
        extraY == height - gridH
        startX2 == StartTwice(extraX, p.dotSize)
        startY2 == StartTwice(extraY, p.dotSize)
        count == IF rows > 0 /\ cols > 0 THEN rows * cols ELSE 0
    IN  [k \in 1..count |->
            LET x == (k - 1) % cols
                y == (k - 1) \div cols
            IN  [cx |-> startX2 + 2 * x * cell,
                 cy |-> startY2 + 2 * y * cell,
                 xOffset |-> 0, yOffset |-> 0, inertiaApplied |-> FALSE]]

\* dot objects that stay alive after dotsRef.current is replaced: the ones
\* an active tween still holds
Held == {i \in DOMAIN dots : tweens[i] # <<>>}

RECURSIVE FreshIds(_, _, _)
FreshIds(n, used, from) ==
    IF n = 0 THEN <<>>
    ELSE IF from \in used THEN FreshIds(n, used, from + 1)
    ELSE <<from>> \o FreshIds(n - 1, used, from + 1)

Range(f) == {f[i] : i \in DOMAIN f}

\* buildGrid put off: the notification is taken and nothing is rebuilt
buildGridLater(width, height) ==
    /\ UNCHANGED <<size, dotsRef, dots, tweens>>
    /\ lastOp' = Op("buildGrid", FALSE, <<0, 0>>, {}, 0, now)

buildGrid(width, height) ==
    LET built == BuildDots(width, height, props)
        ids == FreshIds(Len(built), Held, 1)
        keep == Held \cup Range(ids)
    IN  /\ size' = <<width, height>>
        /\ dotsRef' = ids
        /\ dots' = [i \in keep |->
                      IF i \in Held THEN dots[i]
                      ELSE built[CHOOSE k \in DOMAIN ids : ids[k] = i]]
        /\ tweens' = [i \in keep |-> IF i \in Held THEN tweens[i] ELSE <<>>]
        /\ lastOp' = Op("buildGrid", TRUE, <<0, 0>>, {}, 0, now)

(***************************************************************************)
(* hexToRgb                                                                *)
(***************************************************************************)
LowerHex == <<"0", "1", "2", "3", "4", "5", "6", "7", "8", "9",
              "a", "b", "c", "d", "e", "f">>

UpperHex == <<"0", "1", "2", "3", "4", "5", "6", "7", "8", "9",
              "A", "B", "C", "D", "E", "F">>

\* [a-f\d] under the i flag
IsHexDigit(c) == \E i \in 1..16 : LowerHex[i] = c \/ UpperHex[i] = c

\* parseInt of one digit
HexValue(c) == (CHOOSE i \in 1..16 : LowerHex[i] = c \/ UpperHex[i] = c) - 1

\* parseInt(m[k], 16) of the two digits at positions i, i+1
ParsePair(body, i) == 16 * HexValue(body[i]) + HexValue(body[i + 1])

Black == [r |-> 0, g |-> 0, b |-> 0]

hexToRgb(hex) ==
    LET body == IF Len(hex) > 0 /\ hex[1] = "#" THEN Tail(hex) ELSE hex
        m == Len(body) = 6 /\ \A i \in 1..6 : IsHexDigit(body[i])
    IN  IF ~m THEN Black
        ELSE [r |-> ParsePair(body, 1), g |-> ParsePair(body, 3),
              b |-> ParsePair(body, 5)]

(***************************************************************************)
(* DotGrid.draw                                                            *)
(***************************************************************************)
\* floor(sqrt(n)), n >= 0, by bisection on lo..hi
RECURSIVE SqrtBetween(_, _, _)
SqrtBetween(n, lo, hi) ==
    IF lo = hi THEN lo
    ELSE LET mid == (lo + hi + 1) \div 2
         IN  IF mid * mid <= n THEN SqrtBetween(n, mid, hi)
             ELSE SqrtBetween(n, lo, mid - 1)

FloorSqrt(n) == SqrtBetween(n, 0, 46340)

CeilSqrt(n) == LET f == FloorSqrt(n) IN IF f * f = n THEN f ELSE f + 1

\* Channel with t = dist / proximity
ChannelNoInvert(base, active, dsq4) ==
    LET diff == active - base
        a == (2 * base + 1) * proximity
        whole == IF diff >= 0 THEN a + FloorSqrt(diff * diff * dsq4)
                 ELSE a - CeilSqrt(diff * diff * dsq4)
    IN  FloorDiv(whole, 2 * proximity)

\* Math.round(base + (active - base) * t), t = 1 - dist / proximity and
\* dist = Math.sqrt(dsq), dsq = dsq4 / 4 (dsq4 is in half pixels squared):
\* floor(x + 1/2) with x + 1/2 = (a - diff * sqrt(dsq4)) / (2 * proximity)
Channel(base, active, dsq4) ==
    LET diff == active - base
        a == (2 * (base + diff) + 1) * proximity
        whole == IF diff >= 0 THEN a - CeilSqrt(diff * diff * dsq4)
                 ELSE a + FloorSqrt(diff * diff * dsq4)
    IN  FloorDiv(whole, 2 * proximity)

\* the fillStyle of one dot: baseColor itself, or the string rgb(r,g,b)
Style(dot, px, py, p) ==
    LET baseRgb == hexToRgb(p.baseColor)
        activeRgb == hexToRgb(p.activeColor)
        dx == dot.cx - 2 * px
        dy == dot.cy - 2 * py
        dsq4 == dx * dx + dy * dy
        proxSq == proximity * proximity
    IN  IF dsq4 <= 4 * proxSq
        THEN [rgb |-> TRUE,
              r |-> Channel(baseRgb.r, activeRgb.r, dsq4),
              g |-> Channel(baseRgb.g, activeRgb.g, dsq4),
              b |-> Channel(baseRgb.b, activeRgb.b, dsq4)]
        ELSE [rgb |-> FALSE, css |-> p.baseColor]

\* one frame: without the canvas or its context draw returns at lines 97-99
\* and requests no further frame; otherwise every current dot is filled at
\* center + offset (half pixels) and line 128 requests the next frame
draw ==
    /\ IF host.ctx
       THEN /\ fills' = [k \in 1..Len(dotsRef) |->
                           LET dot == dots[dotsRef[k]]
                           IN  [ox |-> dot.cx + 2 * dot.xOffset,
                                oy |-> dot.cy + 2 * dot.yOffset,
                                style |-> Style(dot, pointer.x, pointer.y, props)]]
            /\ host' = [host EXCEPT !.raf = TRUE]
       ELSE /\ fills' = fills
            /\ host' = [host EXCEPT !.raf = FALSE]
    /\ lastOp' = Op("draw", host.ctx, <<0, 0>>, {}, 0, now)
    /\ UNCHANGED <<now, lastCall, pointer, props, size, dots, dotsRef, tweens, sparks, overlay, text>>

(***************************************************************************)
(* gsap: tweens of a dot                                                   *)
(***************************************************************************)
\* gsap.to(dot, {inertia: {xOffset: pushX, yOffset: pushY, resistance},
\* onComplete}) and gsap.to(dot, {xOffset: 0, yOffset: 0, duration, ease}).
\* The velocities pushX, pushY are read by gsap alone and are not kept.
InertiaTween == [kind |-> "inertia"]

ReturnTween == [kind |-> "return"]

\* killTweensOf that kills nothing
killTweensOfNothing(list) == list

\* gsap.killTweensOf(dot): the dot's list of active tweens afterwards
killTweensOf(list) == <<>>

\* gsap.to(dot, vars): the dot's list of active tweens afterwards
gsapTo(list, tween) == Append(list, tween)

\* values an animation frame can write to (xOffset, yOffset): rest and one
\* displaced value stand for gsap's trajectory
Offsets == {<<0, 0>>, <<1, -1>>}

(***************************************************************************)
(* DotGrid.onMove behind throttle(onMove, 50)                              *)
(***************************************************************************)
\* canvasRef.current.getBoundingClientRect(): App fixes the grid at top 0,
\* left 0 of the viewport
rectLeft == 0
rectTop == 0

\* squared distance of a dot's center from (x, y), in half pixels squared
DistSq4(dot, x, y) ==
    (dot.cx - 2 * x) * (dot.cx - 2 * x) + (dot.cy - 2 * y) * (dot.cy - 2 * y)

\* a speed of k px/s
PxPerSecond(k) == RootOfRat(k, msPerSecond)

\* Clamp that caps speed and leaves vx, vy as they are
ClampSpeedOnly(vx, vy, speed) ==
    IF RootGt(speed, PxPerSecond(maxSpeed))
    THEN <<vx, vy, PxPerSecond(maxSpeed)>>
    ELSE <<vx, vy, speed>>

\* Clamp that rescales vx and leaves vy out
ClampX(vx, vy, speed) ==
    IF RootGt(speed, PxPerSecond(maxSpeed))
    THEN LET scale == RootDiv(PxPerSecond(maxSpeed), speed)
         IN  <<RootMul(vx, scale), vy, PxPerSecond(maxSpeed)>>
    ELSE <<vx, vy, speed>>

\* the clamp of lines 159-164: <<vx, vy, speed>> afterwards
Clamp(vx, vy, speed) ==
    IF RootGt(speed, PxPerSecond(maxSpeed))
    THEN LET scale == RootDiv(PxPerSecond(maxSpeed), speed)
         IN  <<RootMul(vx, scale), RootMul(vy, scale), PxPerSecond(maxSpeed)>>
    ELSE <<vx, vy, speed>>

\* RawVelocity over 16 ms whatever the time since the last sample
RawVelocityFixedDt(pr, clientX, clientY, t) ==
    LET dx == clientX - pr.lastX
        dy == clientY - pr.lastY
        vx == RootOfRat(dx, firstDt)
        vy == RootOfRat(dy, firstDt)
    IN  <<vx, vy, Hypot(vx, vy)>>

\* <<vx, vy, speed>> before the clamp
RawVelocity(pr, clientX, clientY, t) ==
    LET dt == IF pr.lastTime # 0 THEN t - pr.lastTime ELSE firstDt
        dx == clientX - pr.lastX
        dy == clientY - pr.lastY
        vx == RootOfRat(dx, dt)         \* (dx / dt) * 1000 px/s
        vy == RootOfRat(dy, dt)
    IN  <<vx, vy, Hypot(vx, vy)>>

\* pointerRef.current after lines 151-174
Sample(pr, clientX, clientY, t) ==
    LET raw == RawVelocity(pr, clientX, clientY, t)
        v == Clamp(raw[1], raw[2], raw[3])
    IN  [x |-> clientX - rectLeft, y |-> clientY - rectTop,
         vx |-> v[1], vy |-> v[2], speed |-> v[3],
         lastTime |-> t, lastX |-> clientX, lastY |-> clientY]

\* MoveTriggers at the speed trigger itself, too
MoveTriggersAtTrigger(dot, pr) ==
    /\ ~RootGt(PxPerSecond(speedTrigger), pr.speed)
    /\ DistSq4(dot, pr.x, pr.y) < 4 * proximity * proximity
    /\ ~dot.inertiaApplied

\* the condition of line 178
MoveTriggers(dot, pr) ==
    /\ RootGt(pr.speed, PxPerSecond(speedTrigger))
    /\ DistSq4(dot, pr.x, pr.y) < 4 * proximity * proximity
    /\ ~dot.inertiaApplied

\* lines 179-189 / 201-212 on every dot of hit
Launch(hit) ==
    /\ dots' = [i \in DOMAIN dots |->
                  IF i \in hit THEN [dots[i] EXCEPT !.inertiaApplied = TRUE]
                  ELSE dots[i]]
    /\ tweens' = [i \in DOMAIN tweens |->
                    IF i \in hit THEN gsapTo(killTweensOf(tweens[i]), InertiaTween)
                    ELSE tweens[i]]

onMove(clientX, clientY) ==
    LET pr == Sample(pointer, clientX, clientY, now)
        hit == {i \in Range(dotsRef) : MoveTriggers(dots[i], pr)}
    IN  /\ pointer' = pr
        /\ Launch(hit)
        /\ lastOp' = Op("onMove", TRUE, <<clientX, clientY>>, hit, 0, now)

\* ThrottlePasses with half the interval
ThrottlePassesHalf(t, last) == t - last >= limit \div 2

\* the test of line 15
ThrottlePasses(t, last) == t - last >= limit

\* throttledMove(e): the mousemove listener
throttledMove(clientX, clientY) ==
    /\ IF ThrottlePasses(now, lastCall)
       THEN /\ lastCall' = now
            /\ onMove(clientX, clientY)
       ELSE /\ lastOp' = Op("onMove", FALSE, <<clientX, clientY>>, {}, 0, now)
            /\ UNCHANGED <<lastCall, pointer, dots, tweens>>
    /\ UNCHANGED <<now, props, size, dotsRef, fills, sparks, host, overlay, text>>

(***************************************************************************)
(* DotGrid.onClick                                                         *)
(***************************************************************************)
\* ClickTriggers within proximity instead of shockRadius
ClickTriggersNear(dot, cx, cy) ==
    /\ DistSq4(dot, cx, cy) < 4 * proximity * proximity
    /\ ~dot.inertiaApplied

\* ClickTriggers without the test of _inertiaApplied
ClickTriggersUnguarded(dot, cx, cy) ==
    DistSq4(dot, cx, cy) < 4 * shockRadius * shockRadius

\* the condition of line 200
ClickTriggers(dot, cx, cy) ==
    /\ DistSq4(dot, cx, cy) < 4 * shockRadius * shockRadius
    /\ ~dot.inertiaApplied

onClick(clientX, clientY) ==
    LET cx == clientX - rectLeft
        cy == clientY - rectTop
        hit == {i \in Range(dotsRef) : ClickTriggers(dots[i], cx, cy)}
    IN  /\ Launch(hit)
        /\ lastOp' = Op("onClick", TRUE, <<clientX, clientY>>, hit, 0, now)
        /\ UNCHANGED <<now, lastCall, pointer, props, size, dotsRef, fills, sparks, host, overlay, text>>

(***************************************************************************)
(* gsap's ticker: a frame of a tween, and its last frame                   *)
(***************************************************************************)
RemoveAt(list, k) == [j \in 1..(Len(list) - 1) |-> IF j < k THEN list[j] ELSE list[j + 1]]

\* a frame of the k-th tween of dot i writes the offsets
TweenRender(i, k) ==
    /\ i \in DOMAIN dots
    /\ k \in DOMAIN tweens[i]
    /\ \E o \in Offsets :
          dots' = [dots EXCEPT ![i].xOffset = o[1], ![i].yOffset = o[2]]
    /\ lastOp' = Op("render", TRUE, <<0, 0>>, {}, 0, now)
    /\ UNCHANGED <<now, lastCall, pointer, props, size, dotsRef, tweens, fills, sparks, host, overlay, text>>

\* the dot objects still referenced once tw is the table of tweens
Alive(tw) == {i \in DOMAIN tw : i \in Range(dotsRef) \/ tw[i] # <<>>}

\* InertiaComplete with _inertiaApplied left set
InertiaCompleteKeepsFlag(i, k) ==
    /\ i \in DOMAIN dots
    /\ k \in DOMAIN tweens[i]
    /\ tweens[i][k].kind = "inertia"
    /\ \E o \in Offsets :
          dots' = [dots EXCEPT ![i].xOffset = o[1], ![i].yOffset = o[2]]
    /\ tweens' = [tweens EXCEPT ![i] = gsapTo(RemoveAt(tweens[i], k), ReturnTween)]
    /\ lastOp' = Op("onComplete", TRUE, <<0, 0>>, {}, 0, now)
    /\ UNCHANGED <<now, lastCall, pointer, props, size, dotsRef, fills, sparks, host, overlay, text>>

\* the last frame of an inertia tween, then its onComplete (lines 185-188,
\* 208-211): the return tween starts and _inertiaApplied is cleared
InertiaComplete(i, k) ==
    /\ i \in DOMAIN dots
    /\ k \in DOMAIN tweens[i]
    /\ tweens[i][k].kind = "inertia"
    /\ \E o \in Offsets :
          dots' = [dots EXCEPT ![i].xOffset = o[1], ![i].yOffset = o[2],
                               ![i].inertiaApplied = FALSE]
    /\ tweens' = [tweens EXCEPT ![i] = gsapTo(RemoveAt(tweens[i], k), ReturnTween)]
    /\ lastOp' = Op("onComplete", TRUE, <<0, 0>>, {}, 0, now)
    /\ UNCHANGED <<now, lastCall, pointer, props, size, dotsRef, fills, sparks, host, overlay, text>>

\* ReturnComplete with the offsets left where the last frame put them
ReturnCompleteInPlace(i, k) ==
    /\ i \in DOMAIN dots
    /\ k \in DOMAIN tweens[i]
    /\ tweens[i][k].kind = "return"
    /\ LET tw == [tweens EXCEPT ![i] = RemoveAt(tweens[i], k)]
       IN  /\ tweens' = [j \in Alive(tw) |-> tw[j]]
           /\ dots' = [j \in Alive(tw) |-> dots[j]]
    /\ lastOp' = Op("returned", TRUE, <<0, 0>>, {}, 0, now)
    /\ UNCHANGED <<now, lastCall, pointer, props, size, dotsRef, fills, sparks, host, overlay, text>>

\* the last frame of a return tween: the offsets are at (0, 0); a discarded
\* dot that no tween holds any more is gone
ReturnComplete(i, k) ==
    /\ i \in DOMAIN dots
    /\ k \in DOMAIN tweens[i]
    /\ tweens[i][k].kind = "return"
    /\ LET tw == [tweens EXCEPT ![i] = RemoveAt(tweens[i], k)]
           ds == [dots EXCEPT ![i].xOffset = 0, ![i].yOffset = 0]
       IN  /\ tweens' = [j \in Alive(tw) |-> tw[j]]
           /\ dots' = [j \in Alive(tw) |-> ds[j]]
    /\ lastOp' = Op("returned", TRUE, <<0, 0>>, {}, 0, now)
    /\ UNCHANGED <<now, lastCall, pointer, props, size, dotsRef, fills, sparks, host, overlay, text>>

(***************************************************************************)
(* ClickSpark.handleClick and ClickSpark.draw                              *)
(***************************************************************************)
\* Angle over half a turn
AngleHalfTurn(i) == [num |-> i, den |-> sparkCount]

\* (2 * Math.PI * i) / sparkCount, kept as the fraction num/den of pi
Angle(i) == [num |-> 2 * i, den |-> sparkCount]

\* NewSparks with the sparks of a click stamped one tick apart
NewSparksStaggered(clientX, clientY, t) ==
    [k \in 1..sparkCount |->
        [x |-> clientX, y |-> clientY, angle |-> Angle(k - 1),
         startTime |-> t + (k - 1) * TickMs]]

\* Array.from({length: sparkCount}, (_, i) => ...), i from 0
NewSparks(clientX, clientY, t) ==
    [k \in 1..sparkCount |->
        [x |-> clientX, y |-> clientY, angle |-> Angle(k - 1), startTime |-> t]]

handleClick(clientX, clientY) ==
    /\ sparks' = sparks \o NewSparks(clientX, clientY, now)
    /\ lastOp' = Op("handleClick", TRUE, <<clientX, clientY>>, {}, 0, now)
    /\ UNCHANGED <<now, lastCall, pointer, props, size, dots, dotsRef, tweens, fills, host, overlay, text>>

\* Keeps with half the lifetime
KeepsHalf(spark, timestamp) ==
    LET elapsed == timestamp - spark.startTime
    IN  ~(elapsed >= duration \div 2)

\* Keeps with a strict comparison
KeepsAtDuration(spark, timestamp) ==
    LET elapsed == timestamp - spark.startTime
    IN  ~(elapsed > duration)

\* the callback of filter: false removes the spark, true keeps (and draws) it
Keeps(spark, timestamp) ==
    LET elapsed == timestamp - spark.startTime
    IN  ~(elapsed >= duration)

\* draw(timestamp) of ClickSpark: the frame's filter step
sparkDraw(timestamp) ==
    /\ sparks' = SelectSeq(sparks, LAMBDA spark : Keeps(spark, timestamp))
    /\ lastOp' = Op("sparkDraw", TRUE, <<0, 0>>, {}, Len(sparks) - Len(sparks'), timestamp)
    /\ UNCHANGED <<now, lastCall, pointer, props, size, dots, dotsRef, tweens, fills, host, overlay, text>>

(***************************************************************************)
(* App: the text proximity effect                                          *)
(***************************************************************************)
triggerRadius == 150
textLimit == 30         \* throttle(..., 30)

\* centers of the bounding rects of the .react-text elements
TextCenters == <<<<100, 100>>, <<400, 100>>>>

\* Math.hypot of whole numbers; the positions of the runs make every
\* distance below triggerRadius a whole number
TextDist(cx, cy, mx, my) ==
    FloorSqrt((cx - mx) * (cx - mx) + (cy - my) * (cy - my))

\* the vars of the gsap.to of lines 395-410 for one element, without
\* duration and overwrite: the properties it animates and their targets
TextTarget(e, mx, my) ==
    LET dist == TextDist(TextCenters[e][1], TextCenters[e][2], mx, my)
        near == (TextCenters[e][1] - mx) * (TextCenters[e][1] - mx)
                  + (TextCenters[e][2] - my) * (TextCenters[e][2] - my)
                < triggerRadius * triggerRadius
        \* intensity = 1 - dist / triggerRadius
        intensity == Frac(triggerRadius - dist, triggerRadius)
    IN  IF near
        THEN [scale |-> FracAdd(Frac(1, 1), FracMul(Frac(15, 100), intensity)),
              textShadow |-> [px |-> FracMul(Frac(3, 1), intensity),
                              color |-> "var(--primary-color)"],
              color |-> "#333",
              transformOrigin |-> "center center"]
        ELSE [scale |-> Frac(1, 1),
              textShadow |-> [px |-> Frac(0, 1), color |-> "transparent"],
              color |-> ""]

\* overwrite that kills nothing
overwriteNone(list, v) == list

\* overwrite: 'auto', applied when a tween renders first: the started
\* tweens of the element lose the properties the new tween animates, and a
\* tween left without properties is killed
overwriteAuto(list, v) ==
    LET strip(tw) == [tw EXCEPT !.vars = [q \in DOMAIN tw.vars \ DOMAIN v |-> tw.vars[q]]]
        stripped == [k \in DOMAIN list |->
                       IF list[k].started THEN strip(list[k]) ELSE list[k]]
    IN  SelectSeq(stripped, LAMBDA tw : DOMAIN tw.vars # {})

\* the elements as the stylesheet leaves them, no tween, no call yet
InitText ==
    [lastCall |-> 0, moves |-> 0, last |-> <<0, 0>>,
     els |-> [e \in DOMAIN TextCenters |->
                [value |-> [scale |-> Frac(1, 1),
                            textShadow |-> [px |-> Frac(0, 1), color |-> "transparent"],
                            color |-> ""],
                 tweens |-> <<>>]]]

\* the mousemove listener of lines 383-413 behind its throttle
onMouseMove(mx, my) ==
    /\ IF now - text.lastCall >= textLimit
       THEN /\ text' = [text EXCEPT
                  !.lastCall = now,
                  !.moves = text.moves + 1,
                  !.last = <<mx, my>>,
                  !.els = [e \in DOMAIN text.els |->
                             [text.els[e] EXCEPT !.tweens =
                                Append(text.els[e].tweens,
                                       [vars |-> TextTarget(e, mx, my),
                                        started |-> FALSE])]]]
            /\ lastOp' = Op("onMouseMove", TRUE, <<mx, my>>, {}, 0, now)
       ELSE /\ text' = text
            /\ lastOp' = Op("onMouseMove", FALSE, <<mx, my>>, {}, 0, now)
    /\ UNCHANGED <<now, lastCall, pointer, props, size, dots, dotsRef, tweens, fills, sparks, host, overlay>>

\* gsap's ticker renders the oldest tween of element e not yet started for
\* the first time: it overwrites, then runs
TextStart(e) ==
    /\ e \in DOMAIN text.els
    /\ \E k \in DOMAIN text.els[e].tweens :
          /\ ~text.els[e].tweens[k].started
          /\ \A j \in 1..(k - 1) : text.els[e].tweens[j].started
          /\ LET list == text.els[e].tweens
                 head == overwriteAuto(SubSeq(list, 1, k - 1), list[k].vars)
             IN  text' = [text EXCEPT !.els[e].tweens =
                            head \o <<[list[k] EXCEPT !.started = TRUE]>>
                                 \o SubSeq(list, k + 1, Len(list))]
    /\ lastOp' = Op("textStart", TRUE, <<0, 0>>, {}, 0, now)
    /\ UNCHANGED <<now, lastCall, pointer, props, size, dots, dotsRef, tweens, fills, sparks, host, overlay>>

\* the last frame of the k-th tween of element e: the properties it still
\* animates are at their targets
TextComplete(e, k) ==
    /\ e \in DOMAIN text.els
    /\ k \in DOMAIN text.els[e].tweens
    /\ text.els[e].tweens[k].started
    /\ LET v == text.els[e].tweens[k].vars
           old == text.els[e].value
       IN  text' = [text EXCEPT
              !.els[e].value = [q \in DOMAIN old \cup DOMAIN v |->
                                  IF q \in DOMAIN v THEN v[q] ELSE old[q]],
              !.els[e].tweens = RemoveAt(text.els[e].tweens, k)]
    /\ lastOp' = Op("textComplete", TRUE, <<0, 0>>, {}, 0, now)
    /\ UNCHANGED <<now, lastCall, pointer, props, size, dots, dotsRef, tweens, fills, sparks, host, overlay>>

(***************************************************************************)
(* The environment: time, events, resizes                                  *)
(***************************************************************************)
\* clientX, clientY of mousemove events: within proximity of the dots (and
\* near enough to the origin for an unclamped first sample), and far away
MovePositions == {<<30, 1>>, <<300, 1>>}

\* clientX, clientY of click events: on the first dot, and within shockRadius
\* of the dot at x = 29 only
ClickPositions == {<<1, 1>>, <<270, 1>>}

\* sizes the container takes: one dot, two dots
Sizes == {<<2, 2>>, <<30, 2>>}

Tick(max) ==
    /\ now + TickMs <= max
    /\ now' = now + TickMs
    /\ lastOp' = Op("tick", FALSE, <<0, 0>>, {}, 0, now')
    /\ UNCHANGED <<lastCall, pointer, props, size, dots, dotsRef, tweens, fills, sparks, host, overlay, text>>

\* the ResizeObserver callback
Resize(width, height) ==
    /\ Cardinality(Held) + Len(BuildDots(width, height, props)) <= MaxHeap
    /\ buildGrid(width, height)
    /\ UNCHANGED <<now, lastCall, pointer, props, fills, sparks, host, overlay, text>>

\* the frame requestAnimationFrame was asked for
Frame ==
    /\ host.raf
    /\ draw

\* window.innerWidth, window.innerHeight at mount
InitWindow == <<800, 600>>

InitPointer ==
    [x |-> 0, y |-> 0, vx |-> RootZero, vy |-> RootZero, speed |-> RootZero,
     lastTime |-> 0, lastX |-> 0, lastY |-> 0]

\* the state after mount: buildGrid has run on the container's first size
Mounted(p, width, height) ==
    LET built == BuildDots(width, height, p)
    IN  /\ now = 0
        /\ lastCall = 0
        /\ pointer = InitPointer
        /\ props = p
        /\ size = <<width, height>>
        /\ dotsRef = [k \in 1..Len(built) |-> k]
        /\ dots = built
        /\ tweens = [k \in 1..Len(built) |-> <<>>]
        /\ fills = <<>>
        /\ sparks = <<>>
        /\ host = [mounted |-> TRUE, ctx |-> TRUE, raf |-> TRUE,
                   builds |-> [at |-> 0, n |-> 0]]
        /\ overlay = [mounted |-> TRUE, timers |-> <<>>, live |-> FALSE,
                      burst |-> 0, start |-> 0, lastEvent |-> 0,
                      window |-> InitWindow, canvas |-> InitWindow]
        /\ text = InitText
        /\ lastOp = NoOp

(***************************************************************************)
(* Spec: the DotGrid under pointer moves, clicks, resizes and animation    *)
(***************************************************************************)
Init == Mounted(AppProps, 30, 2)

Next ==
    \/ Tick(MaxTime)
    \/ \E e \in MovePositions : throttledMove(e[1], e[2])
    \/ \E e \in ClickPositions : onClick(e[1], e[2])
    \/ \E sz \in Sizes : Resize(sz[1], sz[2])
    \/ \E i \in DOMAIN dots : \E k \in DOMAIN tweens[i] : TweenRender(i, k)
    \/ \E i \in DOMAIN dots : \E k \in DOMAIN tweens[i] : InertiaComplete(i, k)
    \/ \E i \in DOMAIN dots : \E k \in DOMAIN tweens[i] : ReturnComplete(i, k)

Spec == Init /\ [][Next]_vars

\* gsap's ticker runs every tween to its end: an inertia tween decelerates
\* to a stop and a return tween lasts returnDuration
LiveNext ==
    \/ Tick(LiveMaxTime)
    \/ \E e \in MovePositions : throttledMove(e[1], e[2])
    \/ \E e \in ClickPositions : onClick(e[1], e[2])
    \/ \E sz \in Sizes : Resize(sz[1], sz[2])
    \/ \E i \in DOMAIN dots : \E k \in DOMAIN tweens[i] : TweenRender(i, k)
    \/ \E i \in DOMAIN dots : \E k \in DOMAIN tweens[i] : InertiaComplete(i, k)
    \/ \E i \in DOMAIN dots : \E k \in DOMAIN tweens[i] : ReturnComplete(i, k)

LiveSpec ==
    /\ Init
    /\ [][LiveNext]_vars
    /\ WF_vars(\E i \in DOMAIN dots : \E k \in DOMAIN tweens[i] : InertiaComplete(i, k))
    /\ WF_vars(\E i \in DOMAIN dots : \E k \in DOMAIN tweens[i] : ReturnComplete(i, k))

TypeOK ==
    /\ DOMAIN dots = DOMAIN tweens
    /\ Range(dotsRef) \subseteq DOMAIN dots

(***************************************************************************)
(* MountSpec: the DotGrid until and after its unmount                      *)
(***************************************************************************)
\* the cleanups of the three effects (lines 131, 141-146, 220-224): the
\* frame request is cancelled, the observer disconnected and the two window
\* listeners removed; nothing is done about the tweens
Unmount ==
    /\ host.mounted
    /\ host' = [host EXCEPT !.mounted = FALSE, !.raf = FALSE]
    /\ lastOp' = Op("unmount", TRUE, <<0, 0>>, {}, 0, now)
    /\ UNCHANGED <<now, lastCall, pointer, props, size, dots, dotsRef, tweens, fills, sparks, overlay, text>>

\* window delivers mousemove and click to the listeners while they are added
MountNext ==
    \/ Tick(MaxTime)
    \/ host.mounted /\ \E e \in MovePositions : throttledMove(e[1], e[2])
    \/ host.mounted /\ \E e \in ClickPositions : onClick(e[1], e[2])
    \/ Frame
    \/ \E i \in DOMAIN dots : \E k \in DOMAIN tweens[i] : TweenRender(i, k)
    \/ \E i \in DOMAIN dots : \E k \in DOMAIN tweens[i] : InertiaComplete(i, k)
    \/ \E i \in DOMAIN dots : \E k \in DOMAIN tweens[i] : ReturnComplete(i, k)
    \/ Unmount

MountSpec == Init /\ [][MountNext]_vars

(***************************************************************************)
(* PointerSpec: the DotGrid under slow and fast pointer moves, clicks,     *)
(* frames and resizes                                                      *)
(***************************************************************************)
\* clientX, clientY of mousemove events: a first sample at (1, 1) is slower
\* than the speed trigger (88 px/s over 16 ms) and one at (6, 1) faster;
\* from one to the other in 50 ms is the speed trigger itself (100 px/s);
\* (300, 1) is far from every dot
PointerPositions == {<<1, 1>>, <<6, 1>>, <<300, 1>>}

PointerNext ==
    \/ Tick(MaxTime)
    \/ \E e \in PointerPositions : throttledMove(e[1], e[2])
    \/ \E e \in ClickPositions : onClick(e[1], e[2])
    \/ \E sz \in Sizes : Resize(sz[1], sz[2])
    \/ Frame

PointerSpec == Init /\ [][PointerNext]_vars

(***************************************************************************)
(* ResizeSpec: bursts of notifications of the ResizeObserver               *)
(***************************************************************************)
\* the ResizeObserver callback, counted per instant
Notify(width, height) ==
    /\ host.builds.n < MaxBurst \/ host.builds.at # now
    /\ Cardinality(Held) + Len(BuildDots(width, height, props)) <= MaxHeap
    /\ buildGrid(width, height)
    /\ host' = [host EXCEPT !.builds =
                   [at |-> now,
                    n |-> IF lastOp'.ran
                          THEN (IF host.builds.at = now THEN host.builds.n + 1 ELSE 1)
                          ELSE (IF host.builds.at = now THEN host.builds.n ELSE 0)]]
    /\ UNCHANGED <<now, lastCall, pointer, props, fills, sparks, overlay, text>>

ResizeNext ==
    \/ Tick(MaxTime)
    \/ \E e \in ClickPositions : onClick(e[1], e[2])
    \/ \E sz \in Sizes : Notify(sz[1], sz[2])
    \/ \E i \in DOMAIN dots : \E k \in DOMAIN tweens[i] : TweenRender(i, k)
    \/ \E i \in DOMAIN dots : \E k \in DOMAIN tweens[i] : InertiaComplete(i, k)
    \/ \E i \in DOMAIN dots : \E k \in DOMAIN tweens[i] : ReturnComplete(i, k)

ResizeSpec == Init /\ [][ResizeNext]_vars

(***************************************************************************)
(* GridSpec: buildGrid over container sizes and dot sizes and gaps         *)
(***************************************************************************)
\* <<dotSize, gap>>: App's, the defaults of DotGrid, an odd pitch, no gap,
\* no diameter
Layouts == {<<2, 26>>, <<16, 32>>, <<7, 13>>, <<12, 0>>, <<0, 20>>}

Sides == 0..MaxSide

\* every layout in every small container, and App's in one of 300 x 300
GridInit ==
    \/ \E l \in Layouts : \E width \in Sides : \E height \in Sides :
          Mounted([AppProps EXCEPT !.dotSize = l[1], !.gap = l[2]], width, height)
    \/ Mounted(AppProps, 300, 300)

\* the container grows or shrinks by a pixel on one side and the
\* ResizeObserver callback rebuilds
Relayout(width, height) ==
    /\ width \in Sides
    /\ height \in Sides
    /\ buildGrid(width, height)
    /\ UNCHANGED <<now, lastCall, pointer, props, fills, sparks, host, overlay, text>>

GridNext ==
    \/ \E width \in {size[1] - 1, size[1] + 1} : Relayout(width, size[2])
    \/ \E height \in {size[2] - 1, size[2] + 1} : Relayout(size[1], height)

GridSpec == GridInit /\ [][GridNext]_vars

(***************************************************************************)
(* DrawSpec: frames of the grid for configured base and active colours     *)
(***************************************************************************)
\* colour strings: App's two, a three-digit one, one without # in lower case
Colours ==
    {AppProps.baseColor, AppProps.activeColor,
     <<"#", "f", "f", "f">>, <<"1", "e", "9", "0", "f", "f">>}

\* pointer positions: on the first dot, between the dots, far from all
DrawPositions == {<<1, 1>>, <<46, 1>>, <<300, 1>>}

\* a pitch of 30 in a container of 92 x 2 puts four dots at x = 1, 31, 61,
\* 91: the last is at exactly proximity from the first
DrawInit ==
    \E base \in Colours : \E active \in Colours :
        Mounted([dotSize |-> 2, gap |-> 28, baseColor |-> base,
                 activeColor |-> active], 92, 2)

\* the canvas loses or regains its 2D context
ContextChange ==
    /\ host' = [host EXCEPT !.ctx = ~host.ctx]
    /\ lastOp' = Op("context", FALSE, <<0, 0>>, {}, 0, now)
    /\ UNCHANGED <<now, lastCall, pointer, props, size, dots, dotsRef, tweens, fills, sparks, overlay, text>>

DrawNext ==
    \/ Tick(MaxTime)
    \/ \E e \in DrawPositions : throttledMove(e[1], e[2])
    \/ Frame
    \/ ContextChange

DrawSpec == DrawInit /\ [][DrawNext]_vars

(***************************************************************************)
(* SparkSpec: the spark overlay under clicks and frames                    *)
(***************************************************************************)
\* requestAnimationFrame hands draw the time the frame began, which is not
\* after the performance.now() of a handler that runs in that frame
FrameTimes == {t \in {now - TickMs, now} : t >= 0}

SparkClick(clientX, clientY) ==
    /\ Len(sparks) + sparkCount <= MaxSparks
    /\ handleClick(clientX, clientY)

SparkInit == Mounted(AppProps, 0, 0)

SparkNext ==
    \/ Tick(SparkMaxTime)
    \/ \E e \in ClickPositions : SparkClick(e[1], e[2])
    \/ \E timestamp \in FrameTimes : sparkDraw(timestamp)

SparkSpec == SparkInit /\ [][SparkNext]_vars

(***************************************************************************)
(* OverlaySpec: the spark overlay's canvas under window resizes            *)
(***************************************************************************)
resizeDelay == 100      \* setTimeout(resizeCanvas, 100)

\* sizes the window takes
WindowSizes == {InitWindow, <<1024, 768>>}

\* clearTimeout that clears nothing
clearTimeoutNothing(timers, live) == timers

\* clearTimeout(resizeTimeout): the timeout resizeTimeout names, the one set
\* last, is dropped if it is still pending
clearTimeout(timers, live) ==
    IF live THEN SubSeq(timers, 1, Len(timers) - 1) ELSE timers

\* handleResize, the window's resize listener
handleResize(width, height) ==
    /\ overlay.mounted
    /\ overlay.burst < MaxBurst \/ overlay.timers = <<>>
    /\ overlay' = [overlay EXCEPT
          !.timers = Append(clearTimeout(overlay.timers, overlay.live), now + resizeDelay),
          !.live = TRUE,
          !.burst = IF overlay.timers = <<>> THEN 1 ELSE overlay.burst + 1,
          !.start = IF overlay.timers = <<>> THEN now ELSE overlay.start,
          !.lastEvent = now,
          !.window = <<width, height>>]
    /\ lastOp' = Op("handleResize", TRUE, <<width, height>>, {}, 0, now)
    /\ UNCHANGED <<now, lastCall, pointer, props, size, dots, dotsRef, tweens, fills, sparks, host, text>>

\* the k-th pending timeout is due and runs resizeCanvas
resizeCanvas(k) ==
    /\ k \in DOMAIN overlay.timers
    /\ overlay.timers[k] <= now
    /\ overlay' = [overlay EXCEPT
          !.timers = RemoveAt(overlay.timers, k),
          !.live = overlay.live /\ k # Len(overlay.timers),
          !.canvas = overlay.window]
    /\ lastOp' = Op("resizeCanvas", TRUE, overlay.window, {}, 0, now)
    /\ UNCHANGED <<now, lastCall, pointer, props, size, dots, dotsRef, tweens, fills, sparks, host, text>>

\* the cleanup of lines 270-273
OverlayUnmount ==
    /\ overlay.mounted
    /\ overlay' = [overlay EXCEPT
          !.mounted = FALSE,
          !.timers = clearTimeout(overlay.timers, overlay.live),
          !.live = FALSE]
    /\ lastOp' = Op("unmount", TRUE, <<0, 0>>, {}, 0, now)
    /\ UNCHANGED <<now, lastCall, pointer, props, size, dots, dotsRef, tweens, fills, sparks, host, text>>

\* time passes, but not past a pending timeout: timeouts run when due
OverlayTick ==
    /\ \A k \in DOMAIN overlay.timers : overlay.timers[k] >= now + TickMs
    /\ Tick(SparkMaxTime)

OverlayNext ==
    \/ OverlayTick
    \/ \E sz \in WindowSizes : handleResize(sz[1], sz[2])
    \/ \E k \in DOMAIN overlay.timers : resizeCanvas(k)
    \/ OverlayUnmount

OverlaySpec == SparkInit /\ [][OverlayNext]_vars

(***************************************************************************)
(* TextSpec: the text effect under pointer moves                           *)
(***************************************************************************)
\* clientX, clientY of mousemove events: on the first element; 100 px from
\* it; 90 px from the second; exactly triggerRadius from the second
TextPositions == {<<100, 100>>, <<160, 180>>, <<310, 100>>, <<400, 250>>}

TextNext ==
    \/ Tick(TextMaxTime)
    \/ \E m \in TextPositions : onMouseMove(m[1], m[2])
    \/ \E e \in DOMAIN text.els : TextStart(e)
    \/ \E e \in DOMAIN text.els : \E k \in DOMAIN text.els[e].tweens : TextComplete(e, k)

TextSpec == SparkInit /\ [][TextNext]_vars

(***************************************************************************)
(* Properties                                                              *)
(***************************************************************************)
Moved == lastOp.op = "onMove" /\ lastOp.ran

\* C1: while a dot is displaced, a pointer-move or a click starts no
\* animation on it and changes neither its flag nor its tweens
NoRetrigger ==
    [][lastOp'.op \in {"onMove", "onClick"} =>
         \A i \in DOMAIN dots :
            dots[i].inertiaApplied =>
               /\ i \notin lastOp'.launched
               /\ i \in DOMAIN dots'
               /\ dots'[i] = dots[i]
               /\ tweens'[i] = tweens[i]]_vars

\* a click within shockRadius of an already displaced dot left it alone
RetriggerIgnored ==
    /\ lastOp.op = "onClick"
    /\ \E i \in Range(dotsRef) :
          /\ dots[i].inertiaApplied
          /\ i \notin lastOp.launched
          /\ DistSq4(dots[i], lastOp.at[1], lastOp.at[2]) < 4 * 250 * 250

\* C2: every dot has at most one active animation
OneTweenPerDot == \A i \in DOMAIN tweens : Len(tweens[i]) <= 1

\* an event launched an animation on a dot that was still off its rest
\* position, i.e. whose return animation was in flight
PriorCancelled ==
    /\ lastOp.op \in {"onMove", "onClick"}
    /\ \E i \in lastOp.launched : dots[i].xOffset # 0 /\ Len(tweens[i]) = 1

CentersInside ==
    \A k \in DOMAIN dotsRef :
        /\ 0 <= dots[dotsRef[k]].cx /\ dots[dotsRef[k]].cx <= 2 * size[1]
        /\ 0 <= dots[dotsRef[k]].cy /\ dots[dotsRef[k]].cy <= 2 * size[2]

\* a rebuild that puts a dot on the right edge of a container
RebuiltOnEdge ==
    /\ lastOp.op = "buildGrid"
    /\ size[1] > 0
    /\ \E k \in DOMAIN dotsRef : dots[dotsRef[k]].cx = 2 * size[1]

\* C5: the stored speed and the magnitude of the stored (vx, vy) are at most
\* maxSpeed
SpeedBounded ==
    /\ ~RootGt(pointer.speed, RootOfRat(5000, 1000))
    /\ ~FracLess(SqOf(RootOfRat(5000, 1000)),
                 FracAdd(SqOf(pointer.vx), SqOf(pointer.vy)))

\* the first processed sample (the only one possible at 50 ms) was clamped
FirstSampleClamped ==
    /\ Moved
    /\ now = 50
    /\ pointer.speed = RootOfRat(5000, 1000)
    /\ FracAdd(SqOf(pointer.vx), SqOf(pointer.vy)) = SqOf(RootOfRat(5000, 1000))

\* vx = k * rx and vy = k * ry for one k > 0, (rx, ry) not (0, 0)
SameDirection(rx, ry, vx, vy) ==
    /\ vx.s = rx.s
    /\ vy.s = ry.s
    /\ FracMul(SqOf(vx), SqOf(ry)) = FracMul(SqOf(vy), SqOf(rx))

\* C6: when the raw speed of a sample exceeds maxSpeed, the stored velocity
\* is the raw velocity times one positive factor
ClampKeepsDirection ==
    [][(lastOp'.op = "onMove" /\ lastOp'.ran) =>
         LET raw == RawVelocity(pointer, lastOp'.at[1], lastOp'.at[2], now)
         IN  RootGt(raw[3], RootOfRat(5000, 1000)) =>
                SameDirection(raw[1], raw[2], pointer'.vx, pointer'.vy)]_vars

\* a clamped sample with both components of the velocity not zero
ClampedOblique ==
    /\ Moved
    /\ pointer.speed = RootOfRat(5000, 1000)
    /\ pointer.vx.s # 0
    /\ pointer.vy.s # 0

\* C7: a frame at which every spark is at least duration old empties the
\* collection
AllExpiredRemoved ==
    [][(/\ lastOp'.op = "sparkDraw"
        /\ \A k \in DOMAIN sparks : lastOp'.ts - sparks[k].startTime >= 400)
         => sparks' = <<>>]_vars

\* a frame removed the eight sparks of one click and nothing is left
BurstRemoved ==
    /\ lastOp.op = "sparkDraw"
    /\ lastOp.removed = 8
    /\ sparks = <<>>

\* C8: a click appends sparkCount sparks, the i-th at angle 2*pi*i/sparkCount,
\* all at the click's coordinates and with one timestamp, and leaves the
\* sparks before them as they were
ClickAppends ==
    [][lastOp'.op = "handleClick" =>
         /\ Len(sparks') = Len(sparks) + 8
         /\ SubSeq(sparks', 1, Len(sparks)) = sparks
         /\ \A i \in 0..7 :
               sparks'[Len(sparks) + i + 1] =
                  [x |-> lastOp'.at[1], y |-> lastOp'.at[2],
                   angle |-> [num |-> 2 * i, den |-> 8], startTime |-> now]]_vars

\* a click appended its sparks to those of an earlier click
SecondBurst ==
    /\ lastOp.op = "handleClick"
    /\ Len(sparks) = 16
    /\ sparks[1].startTime < sparks[16].startTime

RgbStyle(c) == [rgb |-> TRUE, r |-> c.r, g |-> c.g, b |-> c.b]

\* C9: in a frame, a dot at exactly proximity from the pointer is filled
\* with the base colour and a dot under the pointer with the active colour
ExactEndColours ==
    (lastOp.op = "draw" /\ lastOp.ran) =>
       \A k \in DOMAIN dotsRef :
          LET dsq4 == DistSq4(dots[dotsRef[k]], pointer.x, pointer.y)
          IN  /\ dsq4 = 4 * 90 * 90 =>
                   /\ fills[k].style = RgbStyle(hexToRgb(props.baseColor))
                   /\ props.baseColor = AppProps.baseColor =>
                         fills[k].style = [rgb |-> TRUE, r |-> 220, g |-> 220, b |-> 220]
              /\ dsq4 = 0 =>
                   /\ fills[k].style = RgbStyle(hexToRgb(props.activeColor))
                   /\ props.activeColor = AppProps.activeColor =>
                         fills[k].style = [rgb |-> TRUE, r |-> 255, g |-> 140, b |-> 0]

\* a frame with one dot under the pointer and one at exactly proximity, the
\* two colours being App's
FrameWithBothEnds ==
    /\ lastOp.op = "draw"
    /\ lastOp.ran
    /\ props.baseColor = AppProps.baseColor
    /\ props.activeColor = AppProps.activeColor
    /\ \E k \in DOMAIN dotsRef : DistSq4(dots[dotsRef[k]], pointer.x, pointer.y) = 0
    /\ \E k \in DOMAIN dotsRef :
          DistSq4(dots[dotsRef[k]], pointer.x, pointer.y) = 4 * 90 * 90

\* C10: onMove runs at most once per 50 ms, and a mousemove less than 50 ms
\* after the last run is dropped: pointer, dots and tweens stay as they are
Throttled ==
    [][lastOp'.op = "onMove" =>
         /\ lastOp'.ran => (pointer.lastTime = 0 \/ now - pointer.lastTime >= 50)
         /\ (pointer.lastTime # 0 /\ now - pointer.lastTime < 50) => ~lastOp'.ran
         /\ ~lastOp'.ran => (pointer' = pointer /\ dots' = dots /\ tweens' = tweens)]_vars

\* a mousemove 25 ms after a run of onMove was dropped
MoveDropped ==
    /\ lastOp.op = "onMove"
    /\ ~lastOp.ran
    /\ pointer.lastTime # 0
    /\ now - pointer.lastTime = 25

\* the component's own callbacks
Callbacks == {"onMove", "onClick", "draw", "buildGrid", "onComplete"}

\* C11: once the grid is unmounted none of its callbacks runs again: no
\* frame, no pointer or click handler, no rebuild, no animation callback
NoCallbackAfterUnmount ==
    [][~host.mounted => lastOp'.op \notin Callbacks]_vars

\* C12: once a rebuild has replaced the dot collection, no animation is
\* left on a discarded dot (so none steps or completes on it)
DiscardedCancelled ==
    \A i \in DOMAIN tweens : i \notin Range(dotsRef) => tweens[i] = <<>>

\* C13 as stated: the notifications of one burst (here: of one instant)
\* cause one rebuild
OneRebuildPerBurst == host.builds.n <= 1

\* C13: the layout build is not debounced: every notification of the
\* ResizeObserver rebuilds at once, for the size notified, a collection of
\* new dots at rest
RebuildPerNotification ==
    [][lastOp'.op = "buildGrid" =>
         /\ lastOp'.ran
         /\ Len(dotsRef') = Len(BuildDots(size'[1], size'[2], props))
         /\ \A k \in DOMAIN dotsRef' :
               /\ dots'[dotsRef'[k]] = BuildDots(size'[1], size'[2], props)[k]
               /\ tweens'[dotsRef'[k]] = <<>>]_vars

\* the third rebuild of a burst of three notifications
ThreeRebuilds == lastOp.op = "buildGrid" /\ host.builds.n = 3

\* C14: a pending resize of the overlay's canvas is the one armed by the
\* last resize event, due 100 ms after it, while the overlay is mounted; the
\* canvas is resized only by that timeout, 100 ms after the last event of
\* the burst, to the window's size, and nothing stays pending; an unmount
\* leaves no timeout pending and no resize follows it
DebouncedResize ==
    /\ [](overlay.timers # <<>> =>
            /\ overlay.mounted
            /\ overlay.timers = <<overlay.lastEvent + 100>>
            /\ now <= overlay.lastEvent + 100)
    /\ [][(lastOp'.op = "resizeCanvas" =>
               /\ overlay.mounted
               /\ now = overlay.lastEvent + 100
               /\ overlay'.canvas = overlay.window
               /\ overlay'.timers = <<>>)
           /\ (overlay'.canvas # overlay.canvas => lastOp'.op = "resizeCanvas")
           /\ (lastOp'.op = "unmount" => overlay'.timers = <<>>)
           /\ (~overlay.mounted => lastOp'.op # "resizeCanvas")]_vars

\* a burst of three resize events within 50 ms resized the canvas once, 100
\* ms after the last of them, to the size the window had then
BurstResized ==
    /\ lastOp.op = "resizeCanvas"
    /\ overlay.burst = 3
    /\ overlay.lastEvent - overlay.start = 50
    /\ now = overlay.start + 150
    /\ overlay.canvas # InitWindow

\* the string is not six hex digits with or without a leading #
Malformed(hex) ==
    LET body == IF Len(hex) > 0 /\ hex[1] = "#" THEN SubSeq(hex, 2, Len(hex)) ELSE hex
    IN  Len(body) # 6 \/ \E i \in DOMAIN body : ~IsHexDigit(body[i])

\* C15: in a frame, a malformed base or active colour counts as (0, 0, 0)
\* for every dot: a dot within proximity is filled with the blend that has
\* (0, 0, 0) in its place, a dot outside with (0, 0, 0) for a malformed base
FallbackEverywhere ==
    (lastOp.op = "draw" /\ lastOp.ran) =>
       \A k \in DOMAIN dotsRef :
          LET dsq4 == DistSq4(dots[dotsRef[k]], pointer.x, pointer.y)
              base == IF Malformed(props.baseColor) THEN Black
                      ELSE hexToRgb(props.baseColor)
              active == IF Malformed(props.activeColor) THEN Black
                        ELSE hexToRgb(props.activeColor)
          IN  IF dsq4 <= 4 * 90 * 90
              THEN fills[k].style = [rgb |-> TRUE,
                                     r |-> Channel(base.r, active.r, dsq4),
                                     g |-> Channel(base.g, active.g, dsq4),
                                     b |-> Channel(base.b, active.b, dsq4)]
              ELSE Malformed(props.baseColor) => fills[k].style = RgbStyle(Black)

\* C16: a frame that finds the canvas or its context missing draws nothing
\* and leaves the next frame requested
SkippedFrameKeepsLoop ==
    [][(lastOp'.op = "draw" /\ ~host.ctx) =>
         /\ fills' = fills
         /\ host'.raf]_vars

\* C17 as stated: the flag is cleared only after the return animation has
\* finished, so a dot whose return is in flight still has it set
ClearedAfterReturn ==
    \A i \in DOMAIN dots :
        (\E k \in DOMAIN tweens[i] : tweens[i][k].kind = "return")
           => dots[i].inertiaApplied

\* C17: the flag is set exactly while the dot's inertia animation is
\* active; it is cleared by the step in which the impulse settles and the
\* return animation starts; a dot with the flag clear and no animation has
\* offset (0, 0)
ClearedAtSettle ==
    /\ [](\A i \in DOMAIN dots :
             /\ dots[i].inertiaApplied <=>
                   \E k \in DOMAIN tweens[i] : tweens[i][k].kind = "inertia"
             /\ (~dots[i].inertiaApplied /\ tweens[i] = <<>>) =>
                   (dots[i].xOffset = 0 /\ dots[i].yOffset = 0))
    /\ [][\A i \in DOMAIN dots :
             (dots[i].inertiaApplied /\ i \in DOMAIN dots' /\ ~dots'[i].inertiaApplied)
                => /\ lastOp'.op = "onComplete"
                   /\ tweens'[i] = <<[kind |-> "return"]>>]_vars

\* an impulse has just settled: the flag is clear while the dot is off its
\* rest position and its return animation is in flight
ReturningUnflagged ==
    /\ lastOp.op = "onComplete"
    /\ \E i \in Range(dotsRef) :
          /\ ~dots[i].inertiaApplied
          /\ dots[i].xOffset # 0
          /\ tweens[i] = <<[kind |-> "return"]>>

AllAtRest ==
    \A k \in DOMAIN dotsRef :
        /\ ~dots[dotsRef[k]].inertiaApplied
        /\ dots[dotsRef[k]].xOffset = 0
        /\ dots[dotsRef[k]].yOffset = 0

\* C18: if from some point on no pointer-move and no click is handled, then
\* from some point on every dot of the current collection has its flag
\* clear and its offset at (0, 0)
Settles ==
    <>[][lastOp'.op \notin {"onMove", "onClick"}]_vars => <>[]AllAtRest

\* the return animation of the last displaced dot has finished
AllReturned ==
    /\ lastOp.op = "returned"
    /\ dotsRef # <<>>
    /\ AllAtRest
    /\ \A i \in DOMAIN tweens : tweens[i] = <<>>

\* C19: a frame removes exactly the sparks whose elapsed time (the frame's
\* timestamp minus startTime) is at least 400 and keeps the others, in order
RemovedExactlyWhenOld ==
    [][lastOp'.op = "sparkDraw" =>
         LET young == {k \in DOMAIN sparks : lastOp'.ts - sparks[k].startTime < 400}
         IN  /\ Len(sparks') = Cardinality(young)
             /\ \A j \in DOMAIN sparks' :
                   sparks'[j] = sparks[CHOOSE k \in young :
                                         Cardinality({m \in young : m <= k}) = j]]_vars

\* a frame removed the sparks of one click and kept those of a later click,
\* which were less than 400 ms old
OldRemovedYoungKept ==
    /\ lastOp.op = "sparkDraw"
    /\ lastOp.removed = 8
    /\ Len(sparks) = 8
    /\ lastOp.ts - sparks[1].startTime \in 1..399

\* C20: the progress elapsed / duration of every spark a frame draws is in
\* [0, 1): 0 <= elapsed < 400, whichever of the click's timestamp and the
\* frame's timestamp is the earlier
ProgressInUnitInterval ==
    lastOp.op = "sparkDraw" =>
       \A k \in DOMAIN sparks :
          /\ 0 <= lastOp.ts - sparks[k].startTime
          /\ lastOp.ts - sparks[k].startTime < 400

\* the velocity (dx, dy) / dt px/ms after the clamp to 5000 px/s, compared
\* with the stored one
StoredVelocityIs(pr, dx, dy, dt) ==
    LET ux == RootOfRat(dx, dt)
        uy == RootOfRat(dy, dt)
        u == Hypot(ux, uy)
        top == RootOfRat(5000, 1000)
    IN  IF RootGt(u, top)
        THEN /\ pr.speed = top
             /\ FracAdd(SqOf(pr.vx), SqOf(pr.vy)) = SqOf(top)
             /\ SameDirection(ux, uy, pr.vx, pr.vy)
        ELSE pr.vx = ux /\ pr.vy = uy /\ pr.speed = u

\* C21 as stated: in every processed pointer-move the velocity is the step
\* from the stored sample divided by the time since the stored sample
VelocityFromSamples ==
    [][(lastOp'.op = "onMove" /\ lastOp'.ran) =>
         StoredVelocityIs(pointer', lastOp'.at[1] - pointer.lastX,
                          lastOp'.at[2] - pointer.lastY,
                          now - pointer.lastTime)]_vars

\* C21: the pointer state changes only in a processed pointer-move; its
\* velocity is the step from the previous processed sample divided by the
\* time since that sample, and for the first processed sample the step
\* from (0, 0) divided by 16 ms; its position and time are the event's
PointerOnlyByMoves ==
    [][/\ pointer' # pointer => (lastOp'.op = "onMove" /\ lastOp'.ran)
       /\ lastOp'.op \in {"onClick", "draw", "buildGrid", "tick"} => pointer' = pointer
       /\ (lastOp'.op = "onMove" /\ lastOp'.ran) =>
             /\ StoredVelocityIs(pointer', lastOp'.at[1] - pointer.lastX,
                                  lastOp'.at[2] - pointer.lastY,
                                  IF pointer.lastTime = 0 THEN 16
                                  ELSE now - pointer.lastTime)
             /\ pointer'.lastX = lastOp'.at[1] /\ pointer'.lastY = lastOp'.at[2]
             /\ pointer'.x = lastOp'.at[1] /\ pointer'.y = lastOp'.at[2]
             /\ pointer'.lastTime = now]_vars

\* the second processed sample, 5 px from the first and 50 ms after it: the
\* stored velocity is 100 px/s, unclamped
SecondSampleSlow ==
    /\ Moved
    /\ now = 100
    /\ pointer.speed = RootOfRat(100, 1000)
    /\ pointer.vx.s # 0

\* the step marks displaced the dots of hit, with one inertia animation
\* each, and leaves every other dot and its animations as they were
DisplacesExactly(hit) ==
    /\ DOMAIN dots' = DOMAIN dots
    /\ \A i \in DOMAIN dots :
          IF i \in hit
          THEN /\ dots'[i] = [dots[i] EXCEPT !.inertiaApplied = TRUE]
               /\ tweens'[i] = <<[kind |-> "inertia"]>>
          ELSE /\ dots'[i] = dots[i]
               /\ tweens'[i] = tweens[i]

\* C22: a processed pointer-move of at most 100 px/s changes no dot; a
\* faster one displaces exactly the current dots less than 90 px from the
\* pointer that are not displaced, and changes no other dot
MoveEffect ==
    [][(lastOp'.op = "onMove" /\ lastOp'.ran) =>
         DisplacesExactly(
            IF RootGt(pointer'.speed, RootOfRat(100, 1000))
            THEN {i \in Range(dotsRef) :
                    /\ DistSq4(dots[i], lastOp'.at[1], lastOp'.at[2]) < 4 * 90 * 90
                    /\ ~dots[i].inertiaApplied}
            ELSE {})]_vars

\* a fast pointer-move displaced one dot near the pointer and left another
\* near dot, displaced before, alone
MoveDisplacedOne ==
    /\ Moved
    /\ RootGt(pointer.speed, RootOfRat(100, 1000))
    /\ Cardinality(lastOp.launched) = 1
    /\ \E i \in Range(dotsRef) \ lastOp.launched :
          /\ DistSq4(dots[i], pointer.x, pointer.y) < 4 * 90 * 90
          /\ dots[i].inertiaApplied

\* C23: a click displaces exactly the current dots less than 250 px from
\* the click point that are not displaced, starts one animation on each,
\* and changes no other dot and not the pointer state
ClickEffect ==
    [][lastOp'.op = "onClick" =>
         /\ DisplacesExactly(
               {i \in Range(dotsRef) :
                  /\ DistSq4(dots[i], lastOp'.at[1], lastOp'.at[2]) < 4 * 250 * 250
                  /\ ~dots[i].inertiaApplied})
         /\ pointer' = pointer]_vars

\* a click displaced the one dot within the shock radius and left the dot
\* outside it at rest
ClickDisplacedOne ==
    /\ lastOp.op = "onClick"
    /\ Cardinality(lastOp.launched) = 1
    /\ \E i \in Range(dotsRef) :
          /\ DistSq4(dots[i], lastOp.at[1], lastOp.at[2]) >= 4 * 250 * 250
          /\ ~dots[i].inertiaApplied

\* C25: the collection is a sequence of whole bursts: its size is a multiple
\* of 8, and each block of 8 holds the sparks of one click, with one
\* position, one startTime and the angles 0, 1/8, ..., 7/8 of a turn
WholeBursts ==
    /\ Len(sparks) % 8 = 0
    /\ \A b \in 0..(Len(sparks) \div 8 - 1) : \A i \in 0..7 :
          /\ sparks[8 * b + i + 1].startTime = sparks[8 * b + 1].startTime
          /\ sparks[8 * b + i + 1].x = sparks[8 * b + 1].x
          /\ sparks[8 * b + i + 1].y = sparks[8 * b + 1].y
          /\ sparks[8 * b + i + 1].angle = [num |-> 2 * i, den |-> 8]

\* a frame removed the eight sparks of the older of two clicks at different
\* points and left the eight of the younger
OneBurstLeft ==
    /\ lastOp.op = "sparkDraw"
    /\ lastOp.removed = 8
    /\ Len(sparks) = 8
    /\ sparks[1].x = 270
    /\ lastOp.ts - sparks[8].startTime >= 0

\* the properties that carry the emphasis
EmphasisProps == {"scale", "textShadow", "color"}

\* what a pointer at (mx, my) asks of the element centered at (cx, cy):
\* scale 1 + 0.15 * (1 - dist / 150) and a shadow of 3 * (1 - dist / 150) px
\* within 150 px, the neutral style otherwise
Wanted(cx, cy, mx, my) ==
    LET dsq == (cx - mx) * (cx - mx) + (cy - my) * (cy - my)
        dist == CHOOSE d \in 0..150 : d * d <= dsq /\ dsq < (d + 1) * (d + 1)
    IN  IF dsq < 150 * 150
        THEN [scale |-> Frac(15000 + 15 * (150 - dist), 15000),
              textShadow |-> [px |-> Frac(3 * (150 - dist), 150),
                              color |-> "var(--primary-color)"],
              color |-> "#333"]
        ELSE [scale |-> [n |-> 1, d |-> 1],
              textShadow |-> [px |-> [n |-> 0, d |-> 1], color |-> "transparent"],
              color |-> ""]

\* C24: once a pointer-move has been processed, for every text element: the
\* newest animation of its emphasis has the target the last processed move
\* asks for; at most one running animation animates the emphasis, and once
\* the newest runs it is that one; and with no animation of the emphasis
\* left the element is at the target of the last processed move
LatestWins ==
    text.moves > 0 =>
       \A e \in DOMAIN text.els :
          LET tw == text.els[e].tweens
              want == Wanted(TextCenters[e][1], TextCenters[e][2],
                             text.last[1], text.last[2])
              withP == {k \in DOMAIN tw : DOMAIN tw[k].vars \cap EmphasisProps # {}}
              owners == {k \in withP : tw[k].started}
              newest == CHOOSE k \in withP : \A j \in withP : j <= k
          IN  /\ Cardinality(owners) <= 1
              /\ withP # {} =>
                    /\ \A q \in EmphasisProps : tw[newest].vars[q] = want[q]
                    /\ tw[newest].started => owners = {newest}
              /\ withP = {} =>
                    \A q \in EmphasisProps : text.els[e].value[q] = want[q]

\* the animation of a second processed move has just started on an element
\* whose emphasis the first one was still animating: the first is left with
\* transformOrigin alone
Superseded ==
    /\ lastOp.op = "textStart"
    /\ text.moves = 2
    /\ \E e \in DOMAIN text.els :
          /\ Len(text.els[e].tweens) = 2
          /\ DOMAIN text.els[e].tweens[1].vars = {"transformOrigin"}
          /\ text.els[e].tweens[2].started

====
